---- MODULE Spec2Model ----
(***************************************************************************)
(* Label analysis backend (src/backend/main.py): ingredient parsing,       *)
(* alert rules, health score, personalised recommendations, OCR text       *)
(* categorisation and the product endpoint.                                *)
(*                                                                         *)
(* Representation                                                          *)
(*   - a Python str is a sequence of one-character strings;                *)
(*   - a Python dict is a function whose DOMAIN is the set of keys present;*)
(*   - an Optional value is << >> (None) or <<v>>;                         *)
(*   - nutrient amounts are integers in tenths of a gram (15 g = 150,      *)
(*     0.5 g = 5), OCR confidences are integers in hundredths (0.9 = 90);  *)
(*   - the health score is computed exactly over the rationals, in         *)
(*     120ths of a point, the common denominator of the five deductions.   *)
(***************************************************************************)
EXTENDS Integers, Sequences, FiniteSets, TLC

VARIABLES pc, product_data, ingredients, conditions, ingredients_text,
          text_blocks, alerts, health_score, recommendations, categorized,
          lookup, response, image_request

vars == << pc, product_data, ingredients, conditions, ingredients_text,
           text_blocks, alerts, health_score, recommendations, categorized,
           lookup, response,
           image_request >>

\* Python None / a variable no operation has written yet.
None == << >>

Some(v) == << v >>

-----------------------------------------------------------------------------
(* Strings                                                                 *)

UpperAlpha == <<"A","B","C","D","E","F","G","H","I","J","K","L","M",
                "N","O","P","Q","R","S","T","U","V","W","X","Y","Z">>

LowerAlpha == <<"a","b","c","d","e","f","g","h","i","j","k","l","m",
                "n","o","p","q","r","s","t","u","v","w","x","y","z">>

IsUpperChar(c) == \E i \in DOMAIN UpperAlpha : UpperAlpha[i] = c

IsLowerChar(c) == \E i \in DOMAIN LowerAlpha : LowerAlpha[i] = c

IsSpace(c) == c \in {" ", "\t", "\n", "\r"}

IsDigit(c) == c \in {"0","1","2","3","4","5","6","7","8","9"}

DigitVal(c) == CHOOSE d \in 0..9 : <<"0","1","2","3","4","5","6","7","8","9">>[d + 1] = c

LowerChar(c) ==
  IF IsUpperChar(c)
    THEN LowerAlpha[CHOOSE i \in DOMAIN UpperAlpha : UpperAlpha[i] = c]
    ELSE c

\* str.lower()
Lower(s) == [i \in 1..Len(s) |-> LowerChar(s[i])]

\* str.isupper(): at least one cased character and no lower-case one
IsUpper(s) ==
  /\ \E i \in 1..Len(s) : IsUpperChar(s[i])
  /\ \A i \in 1..Len(s) : ~IsLowerChar(s[i])

\* str.strip()
Strip(s) ==
  LET keep == {i \in 1..Len(s) : ~IsSpace(s[i])}
  IN  IF keep = {} THEN << >>
      ELSE SubSeq(s, CHOOSE i \in keep : \A j \in keep : i <= j,
                     CHOOSE i \in keep : \A j \in keep : j <= i)

\* sub in s
Contains(s, sub) ==
  \E i \in 1..(Len(s) - Len(sub) + 1) :
     \A k \in 1..Len(sub) : s[i + k - 1] = sub[k]

\* any(k in s for k in table)
ContainsAny(s, table) == \E n \in DOMAIN table : Contains(s, table[n])

\* ", ".join(names)
RECURSIVE Join(_)
Join(names) ==
  IF names = << >> THEN << >>
  ELSE IF Len(names) = 1 THEN names[1]
  ELSE names[1] \o <<",", " ">> \o Join(Tail(names))

\* the concatenation of a sequence of strings
RECURSIVE Concat(_)
Concat(parts) ==
  IF parts = << >> THEN << >> ELSE parts[1] \o Concat(Tail(parts))

\* the sequences over S of length 0..n
SeqUpTo(S, n) == UNION {[1..k -> S] : k \in 0..n}

-----------------------------------------------------------------------------
(* Classification tables                                                   *)

HIDDEN_SUGARS ==
  << <<"m","a","l","t","o","d","e","x","t","r","i","n">>,
     <<"d","e","x","t","r","o","s","e">>,
     <<"f","r","u","c","t","o","s","e">>,
     <<"s","u","c","r","o","s","e">>,
     <<"c","o","r","n"," ","s","y","r","u","p">>,
     <<"h","i","g","h"," ","f","r","u","c","t","o","s","e"," ","c","o","r","n"," ","s","y","r","u","p">>,
     <<"f","r","u","i","t"," ","j","u","i","c","e"," ","c","o","n","c","e","n","t","r","a","t","e">>,
     <<"h","o","n","e","y">>,
     <<"a","g","a","v","e"," ","n","e","c","t","a","r">>,
     <<"m","a","p","l","e"," ","s","y","r","u","p">>,
     <<"m","o","l","a","s","s","e","s">> >>

HARMFUL_ADDITIVES ==
  << <<"s","o","d","i","u","m"," ","n","i","t","r","a","t","e">>,
     <<"s","o","d","i","u","m"," ","n","i","t","r","i","t","e">>,
     <<"p","o","t","a","s","s","i","u","m"," ","b","r","o","m","a","t","e">>,
     <<"p","r","o","p","y","l"," ","p","a","r","a","b","e","n">>,
     <<"b","u","t","y","l","a","t","e","d"," ","h","y","d","r","o","x","y","a","n","i","s","o","l","e">>,
     <<"b","u","t","y","l","a","t","e","d"," ","h","y","d","r","o","x","y","t","o","l","u","e","n","e">>,
     <<"p","o","t","a","s","s","i","u","m"," ","i","o","d","a","t","e">>,
     <<"a","z","o","d","i","c","a","r","b","o","n","a","m","i","d","e">>,
     <<"b","r","o","m","i","n","a","t","e","d"," ","v","e","g","e","t","a","b","l","e"," ","o","i","l">> >>

HEALTHY_KEYWORDS ==
  << <<"w","h","o","l","e"," ","g","r","a","i","n">>,
     <<"o","l","i","v","e"," ","o","i","l">>,
     <<"v","e","g","e","t","a","b","l","e">>,
     <<"f","r","u","i","t">>,
     <<"n","u","t">>,
     <<"s","e","e","d">> >>

-----------------------------------------------------------------------------
(* parse_ingredients                                                       *)

\* Where a match of the separator  ,|\s*\(  that starts at s[i] ends; 0 if none.
SepEnd(s, i) ==
  IF s[i] = "," THEN i
  ELSE LET rest == {j \in i..Len(s) : ~IsSpace(s[j])}
       IN  IF rest = {} THEN 0
           ELSE LET j == CHOOSE m \in rest : \A n \in rest : m <= n
                IN  IF s[j] = "(" THEN j ELSE 0

\* re.split(r',|\s*\(', s): the pieces between the separator's matches, empty ones kept
RECURSIVE SplitIngredients(_)
SplitIngredients(s) ==
  LET starts == {i \in 1..Len(s) : SepEnd(s, i) > 0}
  IN  IF starts = {} THEN << s >>
      ELSE LET i == CHOOSE m \in starts : \A n \in starts : m <= n
           IN  << SubSeq(s, 1, i - 1) >>
                 \o SplitIngredients(SubSeq(s, SepEnd(s, i) + 1, Len(s)))

\* The last index of the run of digits that starts at s[i]; i - 1 if s[i] is no digit.
DigitRunEnd(s, i) ==
  LET stops == {j \in i..Len(s) : ~IsDigit(s[j])}
  IN  IF stops = {} THEN Len(s)
      ELSE (CHOOSE m \in stops : \A n \in stops : m <= n) - 1

\* Where a match of  (\d+(\.\d+)?)%  that starts at s[i] ends; 0 if none.
PctEnd(s, i) ==
  LET e1 == DigitRunEnd(s, i)
  IN  IF e1 < i \/ e1 + 1 > Len(s) THEN 0
      ELSE IF s[e1 + 1] = "%" THEN e1 + 1
      ELSE IF s[e1 + 1] = "."
        THEN LET e2 == DigitRunEnd(s, e1 + 2)
             IN  IF e2 >= e1 + 2 /\ e2 + 1 <= Len(s) /\ s[e2 + 1] = "%"
                   THEN e2 + 1 ELSE 0
      ELSE 0

\* re.search(r'(\d+(\.\d+)?)%', s): the start of the leftmost match; 0 if none.
PctSearch(s) ==
  LET starts == {i \in 1..Len(s) : PctEnd(s, i) > 0}
  IN  IF starts = {} THEN 0
      ELSE CHOOSE m \in starts : \A n \in starts : m <= n

\* int() of a string of digits
RECURSIVE ToNat(_)
ToNat(ds) ==
  IF ds = << >> THEN 0
  ELSE 10 * ToNat(SubSeq(ds, 1, Len(ds) - 1)) + DigitVal(ds[Len(ds)])

RECURSIVE Pow10(_)
Pow10(n) == IF n = 0 THEN 1 ELSE 10 * Pow10(n - 1)

\* float(group(1)) of the match that starts at s[i], as the fraction num/den
PctValue(s, i) ==
  LET e1 == DigitRunEnd(s, i)
      e  == PctEnd(s, i)
  IN  IF e = e1 + 1
        THEN [num |-> ToNat(SubSeq(s, i, e1)), den |-> 1]
        ELSE [num |-> ToNat(SubSeq(s, i, e1) \o SubSeq(s, e1 + 2, e - 1)),
              den |-> Pow10(e - 1 - (e1 + 1))]

\* re.sub with count=1: the leftmost match removed, the later ones kept.
PctSubFirst(s) ==
  LET i == PctSearch(s)
  IN  IF i = 0 THEN s
      ELSE SubSeq(s, 1, i - 1) \o SubSeq(s, PctEnd(s, i) + 1, Len(s))

\* re.sub(r'(\d+(\.\d+)?)%', '', s): every match removed, scanning left to right
RECURSIVE PctSub(_)
PctSub(s) ==
  LET i == PctSearch(s)
  IN  IF i = 0 THEN s
      ELSE SubSeq(s, 1, i - 1) \o PctSub(SubSeq(s, PctEnd(s, i) + 1, Len(s)))

\* Classify with the healthy keywords consulted before the harmful tables.
ClassifyHealthyFirst(line) ==
  IF ContainsAny(line, HEALTHY_KEYWORDS) THEN "good"
  ELSE IF ContainsAny(line, HIDDEN_SUGARS) THEN "harmful"
  ELSE IF ContainsAny(line, HARMFUL_ADDITIVES) THEN "harmful"
  ELSE "moderate"

\* The category of an ingredient name: first table that matches wins.
Classify(line) ==
  IF ContainsAny(line, HIDDEN_SUGARS) THEN "harmful"
  ELSE IF ContainsAny(line, HARMFUL_ADDITIVES) THEN "harmful"
  ELSE IF ContainsAny(line, HEALTHY_KEYWORDS) THEN "good"
  ELSE "moderate"

\* The Ingredient built from one non-empty, stripped, lower-cased candidate.
ParseLine(line) ==
  LET m    == PctSearch(line)
      name == IF m > 0 THEN Strip(PctSub(line)) ELSE line
  IN  [ name       |-> name,
        percentage |-> IF m > 0 THEN Some(PctValue(line, m)) ELSE None,
        is_harmful |-> Classify(name) = "harmful",
        category   |-> Classify(name) ]

RECURSIVE ParseLines(_)
ParseLines(lines) ==
  IF lines = << >> THEN << >>
  ELSE LET line == Lower(Strip(lines[1]))
       IN  (IF line = << >> THEN << >> ELSE << ParseLine(line) >>)
             \o ParseLines(Tail(lines))

parse_ingredients(text) ==
  IF text = << >> THEN << >> ELSE ParseLines(SplitIngredients(text))

-----------------------------------------------------------------------------
(* Specification of the ingredient parser: parse_ingredients applied to    *)
(* every text built from at most MaxTokens tokens, and to the label text   *)
(* of the documented scenario.                                             *)

MaxTokens == 3

IngredientTokens ==
  { <<"h","o","n","e","y">>,
    <<"n","u","t">>,
    <<"S","a","l","t">>,
    <<"s","o","d","i","u","m"," ","n","i","t","r","i","t","e">>,
    <<",">>,
    <<" ","(">>,
    <<" ">>,
    <<"1">>,
    <<"5","0">>,
    <<".">>,
    <<"%">>,
    <<"5","%">> }

ScenarioText == <<"S","u","g","a","r",","," ","W","h","o","l","e"," ","G","r","a","i","n"," ","O","a","t","s",","," ","S","a","l","t">>

IngredientTexts ==
  {Concat(ts) : ts \in SeqUpTo(IngredientTokens, MaxTokens)} \cup {ScenarioText}

InitParse ==
  /\ pc = "ready"
  /\ ingredients_text \in IngredientTexts
  /\ ingredients = None
  /\ product_data = None /\ conditions = None /\ text_blocks = None
  /\ alerts = None /\ health_score = None /\ recommendations = None
  /\ categorized = None /\ lookup = None /\ response = None
  /\ image_request = None

ParseIngredients ==
  /\ pc = "ready"
  /\ ingredients' = parse_ingredients(ingredients_text)
  /\ pc' = "parsed"
  /\ UNCHANGED << product_data, conditions, ingredients_text, text_blocks, alerts,
                  health_score, recommendations, categorized, lookup, response,
                  image_request >>

NextParse == ParseIngredients

SpecParse == InitParse /\ [][NextParse]_vars

-----------------------------------------------------------------------------
(* Claims about parse_ingredients                                          *)

Categories == {"good", "moderate", "harmful"}

\* C3: every Ingredient returned by parse_ingredients has its category in
\* {good, moderate, harmful}, and a percentage that is present lies in [0,100].
C3_CategoryAndPercentageInRange ==
  pc = "parsed" =>
    \A i \in DOMAIN ingredients :
       /\ ingredients[i].category \in Categories
       /\ ingredients[i].percentage # None =>
            LET p == ingredients[i].percentage[1]
            IN  0 <= p.num /\ p.num <= 100 * p.den

\* The (name, category) pairs of a parse result, in order.
NamesAndCategories(ings) ==
  [i \in DOMAIN ings |-> << ings[i].name, ings[i].category >>]

\* The precedence of the tables, stated on a returned ingredient.
FollowsPrecedence(ing) ==
  LET sugar    == ContainsAny(ing.name, HIDDEN_SUGARS)
      additive == ContainsAny(ing.name, HARMFUL_ADDITIVES)
      healthy  == ContainsAny(ing.name, HEALTHY_KEYWORDS)
  IN  /\ sugar => ing.category = "harmful"
      /\ ~sugar /\ additive => ing.category = "harmful"
      /\ ~sugar /\ ~additive /\ healthy => ing.category = "good"
      /\ ~sugar /\ ~additive /\ ~healthy => ing.category = "moderate"
      /\ ing.is_harmful <=> ing.category = "harmful"

\* C4 as stated: "Sugar, Whole Grain Oats, Salt" parses to sugar (harmful),
\* whole grain oats (good), salt (moderate), in source order, by the precedence
\* hidden-sugar, harmful-additive, healthy-keyword, else moderate.
C4_ScenarioAsClaimed ==
  /\ pc = "parsed" => \A i \in DOMAIN ingredients : FollowsPrecedence(ingredients[i])
  /\ pc = "parsed" /\ ingredients_text = ScenarioText =>
       NamesAndCategories(ingredients) =
         << << <<"s","u","g","a","r">>, "harmful" >>,
            << <<"w","h","o","l","e"," ","g","r","a","i","n"," ","o","a","t","s">>, "good" >>,
            << <<"s","a","l","t">>, "moderate" >> >>

\* C4 amended: the same three ingredients in source order, but "sugar" is in
\* none of the tables and is moderate; the precedence is as stated.
C4_Scenario ==
  /\ pc = "parsed" => \A i \in DOMAIN ingredients : FollowsPrecedence(ingredients[i])
  /\ pc = "parsed" /\ ingredients_text = ScenarioText =>
       NamesAndCategories(ingredients) =
         << << <<"s","u","g","a","r">>, "moderate" >>,
            << <<"w","h","o","l","e"," ","g","r","a","i","n"," ","o","a","t","s">>, "good" >>,
            << <<"s","a","l","t">>, "moderate" >> >>

C4_Witness ==
  /\ pc = "parsed"
  /\ ingredients_text = ScenarioText
  /\ Len(ingredients) = 3

\* The candidates of a text: its pieces, stripped and lower-cased, the empty
\* ones left out.
Candidates(text) ==
  LET pieces == IF text = << >> THEN << >> ELSE SplitIngredients(text)
  IN  SelectSeq([i \in DOMAIN pieces |-> Lower(Strip(pieces[i]))],
                LAMBDA c : c # << >>)

\* The characters of s from position i on that lie in no percentage pattern,
\* the patterns taken leftmost first.
RECURSIVE OutsidePercentages(_, _)
OutsidePercentages(s, i) ==
  IF i > Len(s) THEN << >>
  ELSE IF PctEnd(s, i) > 0 THEN OutsidePercentages(s, PctEnd(s, i) + 1)
  ELSE << s[i] >> \o OutsidePercentages(s, i + 1)

\* The candidate with its first percentage pattern cut out and the rest kept.
WithoutFirstPercentage(c) ==
  SubSeq(c, 1, PctSearch(c) - 1) \o SubSeq(c, PctEnd(c, PctSearch(c)) + 1, Len(c))

\* The candidate holds a second percentage pattern after its first one.
HasTwoPercentages(c) ==
  /\ PctSearch(c) > 0
  /\ PctSearch(SubSeq(c, PctEnd(c, PctSearch(c)) + 1, Len(c))) > 0

\* C11 as stated: of a candidate with several percentage patterns, the
\* percentage is the value of the first match, and only that first match is
\* removed from the name; the later patterns remain in the name.
C11_OnlyFirstPercentageRemoved ==
  pc = "parsed" =>
    /\ Len(ingredients) = Len(Candidates(ingredients_text))
    /\ \A i \in DOMAIN ingredients :
         LET c == Candidates(ingredients_text)[i]
         IN  PctSearch(c) > 0 =>
               /\ ingredients[i].percentage = Some(PctValue(c, PctSearch(c)))
               /\ ingredients[i].name = Strip(WithoutFirstPercentage(c))

\* C11 amended: of a candidate with several percentage patterns, the
\* percentage is the value of the first match, and every percentage pattern is
\* removed from the name: none remains in it.
C11_EveryPercentageRemoved ==
  pc = "parsed" =>
    /\ Len(ingredients) = Len(Candidates(ingredients_text))
    /\ \A i \in DOMAIN ingredients :
         LET c == Candidates(ingredients_text)[i]
         IN  PctSearch(c) > 0 =>
               /\ ingredients[i].percentage = Some(PctValue(c, PctSearch(c)))
               /\ ingredients[i].name = Strip(OutsidePercentages(c, 1))
               /\ PctSearch(ingredients[i].name) = 0

\* One harmful ingredient, parsed from a candidate with a name and two
\* percentage patterns.
C11_Witness ==
  /\ pc = "parsed"
  /\ Len(ingredients) = 1
  /\ ingredients[1].is_harmful
  /\ ingredients[1].percentage # None
  /\ HasTwoPercentages(Candidates(ingredients_text)[1])

-----------------------------------------------------------------------------
(* Dictionaries and numbers                                                *)

EmptyDict == [k \in {} |-> None]

\* key in d
Has(d, key) == key \in DOMAIN d

\* d.get(key, default)
Get(d, key, default) == IF key \in DOMAIN d THEN d[key] ELSE default

\* The dictionary with one entry, or none when the value is None.
Entry(key, opt) == IF opt = None THEN EmptyDict ELSE key :> opt[1]

Opt(S) == {None} \cup {Some(v) : v \in S}

\* Exact fractions num/den with den > 0.
R(n) == [num |-> n, den |-> 1]

\* A nutrient amount stored in tenths of a gram, in grams.
Grams(tenths) == [num |-> tenths, den |-> 10]

RDivInt(a, k) == [num |-> a.num, den |-> a.den * k]

RMulInt(a, k) == [num |-> a.num * k, den |-> a.den]

RSub(a, b) == [num |-> a.num * b.den - b.num * a.den, den |-> a.den * b.den]

RLess(a, b) == a.num * b.den < b.num * a.den

RMin(a, b) == IF RLess(b, a) THEN b ELSE a

IntMin(a, b) == IF b < a THEN b ELSE a

IntMax(a, b) == IF b > a THEN b ELSE a

\* int(): the fraction cut off towards zero instead of rounded.
RoundTruncate(a) ==
  IF a.num >= 0 THEN a.num \div a.den ELSE -((-a.num) \div a.den)

\* round(): to the nearest integer, a tie to the even one.  (The code rounds
\* the float nearest to this fraction.)
Round(a) ==
  LET q == a.num \div a.den
      r == a.num - q * a.den
  IN  IF 2 * r < a.den THEN q
      ELSE IF 2 * r > a.den THEN q + 1
      ELSE IF q % 2 = 0 THEN q ELSE q + 1

-----------------------------------------------------------------------------
(* generate_alerts                                                         *)

\* [ing for ing in ingredients if ing.is_harmful]
HarmfulIngredients(ings) == SelectSeq(ings, LAMBDA ing : ing.is_harmful)

\* seq[:n]
Take(seq, n) == SubSeq(seq, 1, IntMin(n, Len(seq)))

Names(ings) == [i \in DOMAIN ings |-> ings[i].name]

\* An alert's message is its fixed text with the interpolated value in place.
SugarAlert(pd) ==
  IF Has(pd, "nutriments") /\ Has(pd["nutriments"], "sugars_100g")
       /\ RLess(R(10), Grams(pd["nutriments"]["sugars_100g"]))
    THEN << [ type     |-> "High Sugar",
              message  |-> << "This product is high in sugar (",
                              pd["nutriments"]["sugars_100g"],
                              "g per 100g). Consider limiting consumption." >>,
              severity |-> "high" ] >>
    ELSE << >>

SaltAlert(pd) ==
  IF Has(pd, "nutriments") /\ Has(pd["nutriments"], "salt_100g")
       /\ RLess(Grams(15), Grams(pd["nutriments"]["salt_100g"]))
    THEN << [ type     |-> "High Salt",
              message  |-> << "This product is high in salt (",
                              pd["nutriments"]["salt_100g"],
                              "g per 100g). Consider limiting consumption." >>,
              severity |-> "high" ] >>
    ELSE << >>

\* The alert naming every harmful ingredient instead of the first three.
HarmfulAlertAllNames(ings) ==
  LET harmful_ingredients == HarmfulIngredients(ings)
  IN  IF harmful_ingredients # << >>
        THEN << [ type     |-> "Harmful Ingredients",
                  message  |-> << "This product contains potentially harmful ingredients: ",
                                  Join(Names(harmful_ingredients)),
                                  "." >>,
                  severity |-> "medium" ] >>
        ELSE << >>

HarmfulAlert(ings) ==
  LET harmful_ingredients == HarmfulIngredients(ings)
  IN  IF harmful_ingredients # << >>
        THEN << [ type     |-> "Harmful Ingredients",
                  message  |-> << "This product contains potentially harmful ingredients: ",
                                  Join(Names(Take(harmful_ingredients, 3))),
                                  "." >>,
                  severity |-> "medium" ] >>
        ELSE << >>

ProcessedAlert(pd) ==
  IF Get(pd, "nova_group", 0) = 4
    THEN << [ type     |-> "Ultra-Processed",
              message  |-> << "This product is classified as ultra-processed food. Consider limiting consumption." >>,
              severity |-> "medium" ] >>
    ELSE << >>

generate_alerts(pd, ings) ==
  SugarAlert(pd) \o SaltAlert(pd) \o HarmfulAlert(ings) \o ProcessedAlert(pd)

-----------------------------------------------------------------------------
(* calculate_health_score                                                  *)

\* The score kept at or above 0 only.
ClampLowerOnly(x) == IntMax(0, x)

\* max(0, min(100, x))
Clamp(x) == IntMax(0, IntMin(100, x))

\* sum(1 for ing in ingredients if ing.is_harmful)
HarmfulCount(ings) == Len(HarmfulIngredients(ings))

calculate_health_score(pd, ings, als) ==
  LET nutriments    == Get(pd, "nutriments", EmptyDict)
      sugars        == Grams(Get(nutriments, "sugars_100g", 0))
      sugar_deduction == RMin(R(25), RMulInt(RDivInt(sugars, 20), 25))
      salt          == Grams(Get(nutriments, "salt_100g", 0))
      salt_deduction == RMin(R(20), RMulInt(RDivInt(salt, 3), 20))
      saturated_fat == Grams(Get(nutriments, "saturated-fat_100g", 0))
      fat_deduction == RMin(R(20), RMulInt(RDivInt(saturated_fat, 10), 20))
      harmful_deduction == IntMin(15, HarmfulCount(ings) * 3)
      nova_group    == Get(pd, "nova_group", 1)
      processing_deduction == (nova_group - 1) * 7
      base_score    ==
        RSub(RSub(RSub(RSub(RSub(R(100), sugar_deduction), salt_deduction),
                       fat_deduction), R(harmful_deduction)),
             R(IntMin(20, processing_deduction)))
  IN  Clamp(Round(base_score))

-----------------------------------------------------------------------------
(* get_personalized_recommendations                                        *)

\* x in conditions
InList(x, list) == \E i \in DOMAIN list : list[i] = x

KwDiabetes == <<"d","i","a","b","e","t","e","s">>

KwSugar == <<"s","u","g","a","r">>

KwHighBp == <<"h","i","g","h"," ","b","p">>

KwHypertension == <<"h","y","p","e","r","t","e","n","s","i","o","n">>

KwHeartDisease == <<"h","e","a","r","t"," ","d","i","s","e","a","s","e">>

SugarAdvice(nutriments, conds) ==
  IF InList(KwDiabetes, conds) \/ InList(KwSugar, conds)
    THEN IF RLess(R(5), Grams(Get(nutriments, "sugars_100g", 0)))
           THEN << << "High sugar content (", Get(nutriments, "sugars_100g", 0),
                      "g) - not recommended for diabetes" >> >>
           ELSE << << "Moderate sugar content - can be consumed in moderation" >> >>
    ELSE << >>

SaltAdvice(nutriments, conds) ==
  IF InList(KwHighBp, conds) \/ InList(KwHypertension, conds)
    THEN IF RLess(Grams(15), Grams(Get(nutriments, "salt_100g", 0)))
           THEN << << "High salt content (", Get(nutriments, "salt_100g", 0),
                      "g) - not recommended for hypertension" >> >>
           ELSE << << "Moderate salt content - can be consumed in moderation" >> >>
    ELSE << >>

FatAdvice(nutriments, conds) ==
  IF InList(KwHeartDisease, conds)
    THEN IF RLess(R(5), Grams(Get(nutriments, "saturated-fat_100g", 0)))
           THEN << << "High saturated fat content (", Get(nutriments, "saturated-fat_100g", 0),
                      "g) - not recommended for heart conditions" >> >>
           ELSE << << "Moderate fat content - can be consumed in moderation" >> >>
    ELSE << >>

get_personalized_recommendations(pd, ings, conds) ==
  LET nutriments == Get(pd, "nutriments", EmptyDict)
  IN  SugarAdvice(nutriments, conds) \o SaltAdvice(nutriments, conds)
        \o FatAdvice(nutriments, conds)

-----------------------------------------------------------------------------
(* Specification of the alert rules and the score: generate_alerts, then   *)
(* calculate_health_score, as analyze_product calls them, on every product *)
(* record and ingredient list below.                                       *)

MaxIngredients == 5

\* Nutrient amounts in tenths of a gram: negative, zero, below and above the
\* thresholds and the caps, and very large.
ScoreSugars == {-50, 0, 101, 150, 1000000}

ScoreSalts == {0, 5, 16, 1000000}

ScoreFats == {0, 10, 1000000}

NovaGroups == 1..4

MkNutriments(s, t, f) ==
  Entry("sugars_100g", s) @@ Entry("salt_100g", t) @@ Entry("saturated-fat_100g", f)

MkProduct(n, g) == Entry("nutriments", n) @@ Entry("nova_group", g)

ScoreProducts ==
  { MkProduct(n, g) :
      n \in Opt({ MkNutriments(s, t, f) :
                    s \in Opt(ScoreSugars), t \in Opt(ScoreSalts), f \in Opt(ScoreFats) }),
      g \in Opt(NovaGroups) }

\* Ingredients as parse_ingredients returns them: one harmful, one not.
ScoreIngredients == { ParseLine(<<"h","o","n","e","y">>), ParseLine(<<"s","a","l","t">>) }

InitScore ==
  /\ pc = "ready"
  /\ product_data \in ScoreProducts
  /\ ingredients \in SeqUpTo(ScoreIngredients, MaxIngredients)
  /\ alerts = None /\ health_score = None
  /\ conditions = None /\ ingredients_text = None /\ text_blocks = None
  /\ recommendations = None /\ categorized = None /\ lookup = None
  /\ response = None
  /\ image_request = None

GenerateAlerts ==
  /\ pc = "ready"
  /\ alerts' = generate_alerts(product_data, ingredients)
  /\ pc' = "alerted"
  /\ UNCHANGED << product_data, ingredients, conditions, ingredients_text, text_blocks,
                  health_score, recommendations, categorized, lookup, response,
                  image_request >>

CalculateHealthScore ==
  /\ pc = "alerted"
  /\ health_score' = calculate_health_score(product_data, ingredients, alerts)
  /\ pc' = "scored"
  /\ UNCHANGED << product_data, ingredients, conditions, ingredients_text, text_blocks,
                  alerts, recommendations, categorized, lookup, response,
                  image_request >>

NextScore == GenerateAlerts \/ CalculateHealthScore

SpecScore == InitScore /\ [][NextScore]_vars

-----------------------------------------------------------------------------
(* Specification of the alert rules alone, on ingredient lists with two    *)
(* different harmful names and nutrients on both sides of each threshold.  *)

MaxAlertIngredients == 4

AlertSugars == {100, 101}

AlertSalts == {15, 16}

AlertProducts ==
  { MkProduct(n, g) :
      n \in Opt({ MkNutriments(s, t, None) :
                    s \in Opt(AlertSugars), t \in Opt(AlertSalts) }),
      g \in Opt(NovaGroups) }

AlertIngredients ==
  { ParseLine(<<"h","o","n","e","y">>), ParseLine(<<"d","e","x","t","r","o","s","e">>),
    ParseLine(<<"s","a","l","t">>) }

InitAlerts ==
  /\ pc = "ready"
  /\ product_data \in AlertProducts
  /\ ingredients \in SeqUpTo(AlertIngredients, MaxAlertIngredients)
  /\ alerts = None /\ health_score = None
  /\ conditions = None /\ ingredients_text = None /\ text_blocks = None
  /\ recommendations = None /\ categorized = None /\ lookup = None
  /\ response = None
  /\ image_request = None

NextAlerts == GenerateAlerts

SpecAlerts == InitAlerts /\ [][NextAlerts]_vars

-----------------------------------------------------------------------------
(* Specification of the recommendations: get_personalized_recommendations  *)
(* on condition lists that spell the keywords in several cases.            *)

MaxConditions == 2

RecSugars == {50, 51}

RecSalts == {15, 16}

RecFats == {50, 51}

RecProducts ==
  { MkProduct(n, None) :
      n \in Opt({ MkNutriments(s, t, f) :
                    s \in Opt(RecSugars), t \in Opt(RecSalts), f \in Opt(RecFats) }) }

ConditionPool ==
  { <<"d","i","a","b","e","t","e","s">>,
    <<"D","i","a","b","e","t","e","s">>,
    <<"s","u","g","a","r">>,
    <<"h","i","g","h"," ","b","p">>,
    <<"h","y","p","e","r","t","e","n","s","i","o","n">>,
    <<"H","y","p","e","r","t","e","n","s","i","o","n">>,
    <<"h","e","a","r","t"," ","d","i","s","e","a","s","e">>,
    <<"H","E","A","R","T"," ","D","I","S","E","A","S","E">>,
    <<"a","s","t","h","m","a">> }

InitRecs ==
  /\ pc = "ready"
  /\ product_data \in RecProducts
  /\ conditions \in SeqUpTo(ConditionPool, MaxConditions)
  /\ ingredients = << >>
  /\ recommendations = None
  /\ alerts = None /\ health_score = None /\ ingredients_text = None
  /\ text_blocks = None /\ categorized = None /\ lookup = None /\ response = None
  /\ image_request = None

GetPersonalizedRecommendations ==
  /\ pc = "ready"
  /\ recommendations' = get_personalized_recommendations(product_data, ingredients, conditions)
  /\ pc' = "advised"
  /\ UNCHANGED << product_data, ingredients, conditions, ingredients_text, text_blocks,
                  alerts, health_score, categorized, lookup, response,
                  image_request >>

NextRecs == GetPersonalizedRecommendations

SpecRecs == InitRecs /\ [][NextRecs]_vars

-----------------------------------------------------------------------------
(* Claims about calculate_health_score and generate_alerts                 *)

SugarsOf(pd) == Get(Get(pd, "nutriments", EmptyDict), "sugars_100g", 0)

SaltOf(pd) == Get(Get(pd, "nutriments", EmptyDict), "salt_100g", 0)

FatOf(pd) == Get(Get(pd, "nutriments", EmptyDict), "saturated-fat_100g", 0)

NovaOf(pd) == Get(pd, "nova_group", 1)

WithNutrient(pd, key, v) ==
  ("nutriments" :> ((key :> v) @@ Get(pd, "nutriments", EmptyDict))) @@ pd

WithNova(pd, g) == ("nova_group" :> g) @@ pd

\* The records that differ from pd in one quantity only, which is larger.
RaisedProducts(pd) ==
  {WithNutrient(pd, "sugars_100g", v) : v \in {x \in ScoreSugars : x > SugarsOf(pd)}}
    \cup {WithNutrient(pd, "salt_100g", v) : v \in {x \in ScoreSalts : x > SaltOf(pd)}}
    \cup {WithNutrient(pd, "saturated-fat_100g", v) : v \in {x \in ScoreFats : x > FatOf(pd)}}
    \cup {WithNova(pd, g) : g \in {x \in NovaGroups : x > NovaOf(pd)}}

HarmfulIngredient == ParseLine(<<"h","o","n","e","y">>)

\* The lists with more harmful ingredients than ings: harmful ones appended, or
\* one harmless ingredient replaced by a harmful one.
RaisedIngredients(ings) ==
  {ings \o [i \in 1..k |-> HarmfulIngredient] : k \in 1..(MaxIngredients + 1)}
    \cup {[ings EXCEPT ![i] = HarmfulIngredient] :
            i \in {j \in DOMAIN ings : ~ings[j].is_harmful}}

\* C1: calculate_health_score returns an integer in [0,100], and raising any one
\* of sugars_100g, salt_100g, saturated fat, the harmful-ingredient count or
\* nova_group, the others held fixed, never increases the score.
C1_ScoreBoundedAndMonotone ==
  pc = "scored" =>
    /\ health_score \in 0..100
    /\ \A p \in RaisedProducts(product_data) :
         calculate_health_score(p, ingredients, alerts) <= health_score
    /\ \A l \in RaisedIngredients(ingredients) :
         calculate_health_score(product_data, l, alerts) <= health_score

\* A negative nutrient, scored 100, and a raised record that scores strictly less.
C1_Witness ==
  /\ pc = "scored"
  /\ SugarsOf(product_data) < 0
  /\ health_score = 100
  /\ \E p \in RaisedProducts(product_data) :
       calculate_health_score(p, ingredients, alerts) < health_score
  /\ \E l \in RaisedIngredients(ingredients) :
       calculate_health_score(product_data, l, alerts) < health_score

\* Scenario 2: sugars 15 g, salt 0.5 g, saturated fat 1 g, nova_group 1, no
\* harmful ingredient.
IsScenario2 ==
  /\ product_data = MkProduct(Some(MkNutriments(Some(150), Some(5), Some(10))), Some(1))
  /\ \A i \in DOMAIN ingredients : ~ingredients[i].is_harmful

OnlyHighSugarAlert(als) ==
  /\ Len(als) = 1
  /\ als[1].type = "High Sugar"
  /\ als[1].severity = "high"

\* C2 as stated: on scenario 2, generate_alerts returns exactly one alert (High
\* Sugar, severity high) and calculate_health_score returns 81.
C2_ScenarioAsClaimed ==
  pc = "scored" /\ IsScenario2 =>
    /\ OnlyHighSugarAlert(alerts)
    /\ health_score = 81

\* C2 amended: on scenario 2, generate_alerts returns exactly one alert (High
\* Sugar, severity high) and calculate_health_score returns 76: the salt and
\* the saturated fat are deducted too (18.75 + 3.33 + 2 = 24.08).
C2_Scenario ==
  pc = "scored" /\ IsScenario2 =>
    /\ OnlyHighSugarAlert(alerts)
    /\ health_score = 76

C2_Witness ==
  /\ pc = "scored"
  /\ IsScenario2
  /\ Len(alerts) = 1

AlertOrder == << "High Sugar", "High Salt", "Harmful Ingredients", "Ultra-Processed" >>

\* The alert types the rules call for, given the record and the ingredients.
AlertsDue(pd, ings) ==
  {t \in {"High Sugar"} : SugarsOf(pd) > 100}
    \cup {t \in {"High Salt"} : SaltOf(pd) > 15}
    \cup {t \in {"Harmful Ingredients"} : \E i \in DOMAIN ings : ings[i].is_harmful}
    \cup {t \in {"Ultra-Processed"} : Has(pd, "nova_group") /\ pd["nova_group"] = 4}

\* The names of the first n harmful ingredients of ings, in order.
RECURSIVE FirstHarmfulNames(_, _)
FirstHarmfulNames(ings, n) ==
  IF n = 0 \/ ings = << >> THEN << >>
  ELSE IF ings[1].is_harmful
    THEN << ings[1].name >> \o FirstHarmfulNames(Tail(ings), n - 1)
    ELSE FirstHarmfulNames(Tail(ings), n)

\* C5: generate_alerts returns the alerts that are due, each once, in the order
\* High Sugar, High Salt, Harmful Ingredients, Ultra-Processed: High Sugar iff
\* sugars_100g > 10, High Salt iff salt_100g > 1.5, Harmful Ingredients iff some
\* ingredient is harmful (its message lists the first three harmful names in
\* ingredient order), Ultra-Processed iff nova_group = 4.
C5_AlertsInRuleOrder ==
  pc = "alerted" =>
    /\ [i \in DOMAIN alerts |-> alerts[i].type]
         = SelectSeq(AlertOrder, LAMBDA t : t \in AlertsDue(product_data, ingredients))
    /\ \A i \in DOMAIN alerts :
         alerts[i].type = "Harmful Ingredients" =>
           alerts[i].message[2] = Join(FirstHarmfulNames(ingredients, 3))

\* All four alerts at once, from a list with four harmful ingredients.
C5_Witness ==
  /\ pc = "alerted"
  /\ Len(alerts) = 4
  /\ Len(HarmfulIngredients(ingredients)) = 4
  /\ ingredients[1].name # ingredients[2].name

-----------------------------------------------------------------------------
(* Claim about get_personalized_recommendations                            *)

\* Some condition is, in lower case, one of the keywords.
MatchesIgnoringCase(conds, keywords) ==
  \E i \in DOMAIN conds : Lower(conds[i]) \in keywords

\* The recommendations among recs whose fixed text is one of texts.
AdviceWith(recs, texts) == SelectSeq(recs, LAMBDA r : r[1] \in texts)

\* One category of C7: with a matching keyword exactly one recommendation, the
\* warning if the amount is above the threshold and the moderation message
\* otherwise; without one, nothing.
CategoryAsClaimed(recs, matched, above, warning, moderation) ==
  /\ Len(AdviceWith(recs, {warning, moderation})) = (IF matched THEN 1 ELSE 0)
  /\ matched => Len(AdviceWith(recs, {IF above THEN warning ELSE moderation})) = 1

\* C7: the condition keywords are matched case-insensitively against {diabetes,
\* sugar, high bp, hypertension, heart disease}; each of the categories sugar,
\* blood pressure and heart with a matching keyword emits exactly one
\* recommendation, a warning if sugars_100g > 5 / salt_100g > 1.5 / saturated
\* fat > 5 and a moderation message otherwise; the others emit nothing.
C7_CaseInsensitiveAdvice ==
  pc = "advised" =>
    /\ CategoryAsClaimed(recommendations,
         MatchesIgnoringCase(conditions, {KwDiabetes, KwSugar}),
         SugarsOf(product_data) > 50,
         "High sugar content (",
         "Moderate sugar content - can be consumed in moderation")
    /\ CategoryAsClaimed(recommendations,
         MatchesIgnoringCase(conditions, {KwHighBp, KwHypertension}),
         SaltOf(product_data) > 15,
         "High salt content (",
         "Moderate salt content - can be consumed in moderation")
    /\ CategoryAsClaimed(recommendations,
         MatchesIgnoringCase(conditions, {KwHeartDisease}),
         FatOf(product_data) > 50,
         "High saturated fat content (",
         "Moderate fat content - can be consumed in moderation")

-----------------------------------------------------------------------------
(* categorize_text                                                         *)

nutrition_keywords ==
  << <<"c","a","l","o","r","i","e","s">>,
     <<"p","r","o","t","e","i","n">>,
     <<"f","a","t">>,
     <<"c","a","r","b","o","h","y","d","r","a","t","e">>,
     <<"s","u","g","a","r">>,
     <<"s","o","d","i","u","m">>,
     <<"f","i","b","e","r">>,
     <<"v","i","t","a","m","i","n">>,
     <<"c","a","l","c","i","u","m">>,
     <<"i","r","o","n">>,
     <<"s","e","r","v","i","n","g">>,
     <<"n","u","t","r","i","t","i","o","n"," ","f","a","c","t","s">>,
     <<"e","n","e","r","g","y">>,
     <<"k","c","a","l">>,
     <<"k","j">>,
     <<"s","a","t","u","r","a","t","e","d">>,
     <<"t","r","a","n","s">>,
     <<"c","h","o","l","e","s","t","e","r","o","l">> >>

marketing_keywords ==
  << <<"n","e","w">>,
     <<"i","m","p","r","o","v","e","d">>,
     <<"n","a","t","u","r","a","l">>,
     <<"o","r","g","a","n","i","c">>,
     <<"p","r","e","m","i","u","m">>,
     <<"f","r","e","s","h">>,
     <<"h","e","a","l","t","h","y">>,
     <<"d","e","l","i","c","i","o","u","s">>,
     <<"t","a","s","t","y">>,
     <<"b","e","s","t">>,
     <<"q","u","a","l","i","t","y">>,
     <<"a","u","t","h","e","n","t","i","c">>,
     <<"t","r","a","d","i","t","i","o","n","a","l">>,
     <<"h","o","m","e","m","a","d","e">>,
     <<"a","r","t","i","s","a","n">>,
     <<"g","o","u","r","m","e","t">>,
     <<"s","p","e","c","i","a","l">> >>

slogan_indicators ==
  << <<"!">>,
     <<"t","a","s","t","e">>,
     <<"e","x","p","e","r","i","e","n","c","e">>,
     <<"e","n","j","o","y">>,
     <<"l","o","v","e">>,
     <<"p","e","r","f","e","c","t">>,
     <<"u","l","t","i","m","a","t","e">> >>

EmptyCategorizedText ==
  [ brand_name |-> None, slogans |-> << >>, marketing_text |-> << >>,
    nutrition_facts |-> EmptyDict, miscellaneous |-> << >> ]

\* text.lower().strip() is empty or shorter than 2: the line is skipped.
Skipped(text) == Len(Strip(Lower(text))) < 2

\* The brand test applied to the lower-cased text, which is never upper-case.
IsBrandCandidateOnLower(text, conf) ==
  /\ IsUpper(Strip(Lower(text)))
  /\ Len(text) > 2
  /\ Len(text) < 30
  /\ conf > 90

\* text.isupper() and len(text) > 2 and len(text) < 30 and conf > 0.9
IsBrandCandidate(text, conf) ==
  /\ IsUpper(text)
  /\ Len(text) > 2
  /\ Len(text) < 30
  /\ conf > 90

\* The positions of ':' and '-' in text; re.split(r'[:\-]', text) returns one
\* part more than there are.
SeparatorsIn(text) == {i \in 1..Len(text) : text[i] \in {":", "-"}}

\* The list a line is appended to (or the dictionary it is entered in), with the
\* marketing keywords tried before the nutrition keywords.
RouteMarketingFirst(text) ==
  LET text_lower == Strip(Lower(text))
  IN  IF ContainsAny(text_lower, marketing_keywords) THEN "marketing_text"
      ELSE IF ContainsAny(text_lower, nutrition_keywords)
        THEN IF Cardinality(SeparatorsIn(text)) + 1 = 2
               THEN "nutrition_facts" ELSE "miscellaneous"
      ELSE IF ContainsAny(text_lower, slogan_indicators) \/ Contains(text, <<"!">>)
        THEN "slogans"
      ELSE "miscellaneous"

\* The list a line is appended to (or the dictionary it is entered in): the
\* if / elif chain of the loop.
Route(text) ==
  LET text_lower == Strip(Lower(text))
  IN  IF ContainsAny(text_lower, nutrition_keywords)
        THEN IF Cardinality(SeparatorsIn(text)) + 1 = 2
               THEN "nutrition_facts" ELSE "miscellaneous"
      ELSE IF ContainsAny(text_lower, marketing_keywords) THEN "marketing_text"
      ELSE IF ContainsAny(text_lower, slogan_indicators) \/ Contains(text, <<"!">>)
        THEN "slogans"
      ELSE "miscellaneous"

\* parts[0].strip() and parts[1].strip() of a text with one separator
FactKey(text) ==
  LET i == CHOOSE j \in SeparatorsIn(text) : TRUE
  IN  Strip(SubSeq(text, 1, i - 1))

FactValue(text) ==
  LET i == CHOOSE j \in SeparatorsIn(text) : TRUE
  IN  Strip(SubSeq(text, i + 1, Len(text)))

\* One iteration of the loop over text_blocks; st holds categorized and
\* brand_candidates.
ProcessBlock(st, text, conf) ==
  IF Skipped(text) THEN st
  ELSE
    LET c    == st.categorized
        dest == Route(text)
    IN  [ brand_candidates |->
            IF IsBrandCandidate(text, conf)
              THEN Append(st.brand_candidates, text) ELSE st.brand_candidates,
          categorized |->
            IF dest = "nutrition_facts"
              THEN [c EXCEPT !.nutrition_facts = (FactKey(text) :> FactValue(text)) @@ @]
            ELSE IF dest = "marketing_text"
              THEN [c EXCEPT !.marketing_text = Append(@, text)]
            ELSE IF dest = "slogans"
              THEN [c EXCEPT !.slogans = Append(@, text)]
            ELSE [c EXCEPT !.miscellaneous = Append(@, text)] ]

\* The loop: the state after the first n blocks.
RECURSIVE CategorizeLoop(_, _)
CategorizeLoop(blocks, n) ==
  IF n = 0
    THEN [ categorized |-> EmptyCategorizedText, brand_candidates |-> << >> ]
    ELSE ProcessBlock(CategorizeLoop(blocks, n - 1), blocks[n][1], blocks[n][2])

\* The brand step that leaves the brand in miscellaneous.
SelectBrandKeepMisc(st) ==
  IF st.brand_candidates # << >>
    THEN [st.categorized EXCEPT !.brand_name = Some(st.brand_candidates[1])]
    ELSE st.categorized

\* The first candidate becomes brand_name and is removed from miscellaneous.
SelectBrand(st) ==
  IF st.brand_candidates # << >>
    THEN [st.categorized EXCEPT
            !.brand_name = Some(st.brand_candidates[1]),
            !.miscellaneous = SelectSeq(@, LAMBDA t : t # st.brand_candidates[1])]
    ELSE st.categorized

categorize_text(blocks) == SelectBrand(CategorizeLoop(blocks, Len(blocks)))

-----------------------------------------------------------------------------
(* Specification of the categoriser: categorize_text on every list of at   *)
(* most MaxLines (text, confidence) blocks.                                *)

MaxLines == 2

\* Upper-case lines of every destination, of length 2, 3 (1 when stripped),
\* 29 and 30, and lines in lower or mixed case.
UpperLines ==
  { <<"E","N","E","R","G","Y">>,
    <<"C","O","C","A"," ","C","O","L","A">>,
    <<"N","E","W">>,
    <<"F","A","T","-","5","G">>,
    <<"T","R","Y"," ","I","T","!">>,
    <<" ","A"," ">>,
    <<"A","B">>,
    <<"A","A","A","A","A","A","A","A","A","A","A","A","A","A","A","A","A","A","A","A","A","A","A","A","A","A","A","A","A","A">>,
    <<"B","B","B","B","B","B","B","B","B","B","B","B","B","B","B","B","B","B","B","B","B","B","B","B","B","B","B","B","B">> }

OtherLines ==
  { <<"E","n","e","r","g","y",":"," ","1","0","k","J">>,
    <<"f","a","t",":"," ","9","g">>,
    <<"f","a","t",":"," ","5","g">>,
    <<"e","n","j","o","y","!">>,
    <<"f","r","e","s","h"," ","t","a","s","t","e">>,
    <<"n","a","t","u","r","a","l"," ","e","n","e","r","g","y">>,
    <<"w","a","t","e","r">>,
    <<"a">> }

\* Confidences in hundredths: 0.9 and 0.95.
Confidences == {90, 95}

Blocks == (UpperLines \cup OtherLines) \X Confidences

InitOCR ==
  /\ pc = "ready"
  /\ text_blocks \in SeqUpTo(Blocks, MaxLines)
  /\ categorized = None
  /\ product_data = None /\ ingredients = None /\ conditions = None
  /\ ingredients_text = None /\ alerts = None /\ health_score = None
  /\ recommendations = None /\ lookup = None /\ response = None
  /\ image_request = None

CategorizeText ==
  /\ pc = "ready"
  /\ categorized' = categorize_text(text_blocks)
  /\ pc' = "categorized"
  /\ UNCHANGED << product_data, ingredients, conditions, ingredients_text, text_blocks,
                  alerts, health_score, recommendations, lookup, response,
                  image_request >>

NextOCR == CategorizeText

SpecOCR == InitOCR /\ [][NextOCR]_vars

-----------------------------------------------------------------------------
(* Claims about categorize_text                                            *)

TextOf(block) == block[1]

ConfidenceOf(block) == block[2]

\* Upper-case, of length strictly between 2 and 30, with confidence above 0.9.
LooksLikeBrand(block) ==
  /\ \E i \in 1..Len(TextOf(block)) : IsUpperChar(TextOf(block)[i])
  /\ \A i \in 1..Len(TextOf(block)) : ~IsLowerChar(TextOf(block)[i])
  /\ 2 < Len(TextOf(block)) /\ Len(TextOf(block)) < 30
  /\ ConfidenceOf(block) > 90

\* The text is shorter than two characters once trimmed.
TooShort(block) == Len(Strip(TextOf(block))) <= 1

Least(S) == CHOOSE m \in S : \A n \in S : m <= n

InSeq(x, seq) == \E i \in DOMAIN seq : seq[i] = x

\* The text is entered in facts as the pair it splits into.
InFacts(text, facts) ==
  /\ Cardinality(SeparatorsIn(text)) = 1
  /\ FactKey(text) \in DOMAIN facts
  /\ facts[FactKey(text)] = FactValue(text)

\* C8 as stated: the first line in scan order that is upper-case, of length
\* strictly between 2 and 30 and with confidence > 0.9 becomes brand_name, and
\* afterwards its text is in none of nutrition_facts, marketing_text, slogans
\* and miscellaneous.
C8_BrandRemovedEverywhere ==
  pc = "categorized" =>
    LET cands == {i \in DOMAIN text_blocks : LooksLikeBrand(text_blocks[i])}
    IN  cands # {} =>
          LET brand == TextOf(text_blocks[Least(cands)])
          IN  /\ categorized.brand_name = Some(brand)
              /\ ~InFacts(brand, categorized.nutrition_facts)
              /\ ~InSeq(brand, categorized.marketing_text)
              /\ ~InSeq(brand, categorized.slogans)
              /\ ~InSeq(brand, categorized.miscellaneous)

\* C8 amended: the first line in scan order that is not discarded as too short
\* and is upper-case, of length strictly between 2 and 30 and with confidence
\* > 0.9 becomes brand_name (there is no brand_name without such a line), and
\* afterwards its text is not in miscellaneous; where the line was routed to
\* nutrition_facts, marketing_text or slogans, it stays there.
C8_BrandRemovedFromMiscellaneous ==
  pc = "categorized" =>
    LET cands == {i \in DOMAIN text_blocks :
                    ~TooShort(text_blocks[i]) /\ LooksLikeBrand(text_blocks[i])}
    IN  IF cands = {} THEN categorized.brand_name = None
        ELSE LET brand == TextOf(text_blocks[Least(cands)])
             IN  /\ categorized.brand_name = Some(brand)
                 /\ ~InSeq(brand, categorized.miscellaneous)
                 /\ ContainsAny(Strip(Lower(brand)), nutrition_keywords)
                      /\ Cardinality(SeparatorsIn(brand)) = 1
                      => FactKey(brand) \in DOMAIN categorized.nutrition_facts
                 /\ ~ContainsAny(Strip(Lower(brand)), nutrition_keywords)
                      /\ ContainsAny(Strip(Lower(brand)), marketing_keywords)
                      => InSeq(brand, categorized.marketing_text)

\* A brand found on the second line and taken out of miscellaneous, where the
\* first line stays.
C8_Witness ==
  /\ pc = "categorized"
  /\ Len(text_blocks) = 2
  /\ categorized.brand_name = Some(TextOf(text_blocks[2]))
  /\ Route(TextOf(text_blocks[2])) = "miscellaneous"
  /\ categorized.miscellaneous = << TextOf(text_blocks[1]) >>

Energy == <<"E","N","E","R","G","Y">>

\* C9 as stated: the single line "ENERGY" with confidence 0.95 gives an empty
\* nutrition_facts and a miscellaneous list that contains "ENERGY".
C9_EnergyInMiscellaneous ==
  pc = "categorized" /\ text_blocks = << << Energy, 95 >> >> =>
    /\ DOMAIN categorized.nutrition_facts = {}
    /\ InSeq(Energy, categorized.miscellaneous)

\* C9 amended: the single line "ENERGY" with confidence 0.95 gives an empty
\* nutrition_facts, brand_name "ENERGY" and an empty miscellaneous list: the
\* line is appended to miscellaneous, and removed from it as the brand.
C9_EnergyBecomesBrand ==
  pc = "categorized" /\ text_blocks = << << Energy, 95 >> >> =>
    /\ DOMAIN categorized.nutrition_facts = {}
    /\ categorized.brand_name = Some(Energy)
    /\ categorized.miscellaneous = << >>
    /\ categorized.marketing_text = << >>
    /\ categorized.slogans = << >>

C9_Witness ==
  /\ pc = "categorized"
  /\ text_blocks = << << Energy, 95 >> >>
  /\ categorized.brand_name # None

\* The destination of a line by first-match precedence.
Destination(text) ==
  LET t == Strip(Lower(text))
  IN  IF Len(t) <= 1 THEN "none"
      ELSE IF \E k \in DOMAIN nutrition_keywords : Contains(t, nutrition_keywords[k])
        THEN IF Cardinality({i \in 1..Len(text) : text[i] = ":" \/ text[i] = "-"}) = 1
               THEN "nutrition_facts" ELSE "miscellaneous"
      ELSE IF \E k \in DOMAIN marketing_keywords : Contains(t, marketing_keywords[k])
        THEN "marketing_text"
      ELSE IF \E k \in DOMAIN slogan_indicators : Contains(t, slogan_indicators[k])
        THEN "slogans"
      ELSE "miscellaneous"

\* The destinations of the blocks, in input order.
Destinations(blocks) == [i \in DOMAIN blocks |-> Destination(TextOf(blocks[i]))]

\* The texts of the blocks whose destination, read from dests, is dest, in
\* input order.
TextsTo(blocks, dests, dest) ==
  LET at == SelectSeq([i \in DOMAIN blocks |-> i], LAMBDA i : dests[i] = dest)
  IN  [k \in DOMAIN at |-> TextOf(blocks[at[k]])]

\* facts holds the pairs of the texts routed to nutrition_facts, a later pair
\* replacing an earlier one with the same key.
HoldsFactsOf(facts, texts) ==
  /\ DOMAIN facts = {FactKey(texts[i]) : i \in DOMAIN texts}
  /\ \A i \in DOMAIN texts :
       (\A j \in DOMAIN texts : j > i => FactKey(texts[j]) # FactKey(texts[i]))
         => facts[FactKey(texts[i])] = FactValue(texts[i])

\* C10: the loop of categorize_text routes every line whose trimmed text is
\* longer than one character to exactly one destination by first-match
\* precedence (nutrition keyword: nutrition_facts when the text splits in two
\* on ':' or '-', else miscellaneous; else marketing keyword; else slogan
\* indicator; else miscellaneous), routes shorter lines nowhere, and keeps each
\* list in input order.  The returned lists are those of the loop, but for the
\* brand's text, which the brand step takes out of miscellaneous.
C10_RoutedByPrecedence ==
  pc = "categorized" =>
    \A routed \in {CategorizeLoop(text_blocks, Len(text_blocks)).categorized},
       dests \in {Destinations(text_blocks)} :
      /\ routed.marketing_text = TextsTo(text_blocks, dests, "marketing_text")
      /\ routed.slogans = TextsTo(text_blocks, dests, "slogans")
      /\ routed.miscellaneous = TextsTo(text_blocks, dests, "miscellaneous")
      /\ HoldsFactsOf(routed.nutrition_facts,
                      TextsTo(text_blocks, dests, "nutrition_facts"))
      /\ categorized.marketing_text = routed.marketing_text
      /\ categorized.slogans = routed.slogans
      /\ categorized.nutrition_facts = routed.nutrition_facts
      /\ categorized.miscellaneous =
           SelectSeq(routed.miscellaneous,
                     LAMBDA t : categorized.brand_name # Some(t))

\* Two different lines in one list, a discarded line aside.
C10_Witness ==
  /\ pc = "categorized"
  /\ Len(text_blocks) = 2
  /\ Len(categorized.marketing_text) = 2
  /\ categorized.marketing_text[1] # categorized.marketing_text[2]

-----------------------------------------------------------------------------
(* get_product_data and the endpoint analyze_product                       *)

UpperChar(c) ==
  IF IsLowerChar(c)
    THEN UpperAlpha[CHOOSE i \in DOMAIN LowerAlpha : LowerAlpha[i] = c]
    ELSE c

\* str.upper()
Upper(s) == [i \in 1..Len(s) |-> UpperChar(s[i])]

\* What requests.get and response.json() come to: an exception (no connection,
\* a timeout, a body that is no JSON), or a status code with the decoded body.
\* The product, or None: for an exception, a status code other than 200, a
\* body whose 'status' is not 1 and a body with no 'product'.
get_product_data(outcome) ==
  IF outcome.kind = "exception" THEN None
  ELSE IF outcome.status_code = 200
    THEN IF Get(outcome.json, "status", 0) = 1
           THEN IF Has(outcome.json, "product") THEN outcome.json["product"] ELSE None
           ELSE None
  ELSE None

\* processing_levels.get(nova_group, "Unknown")
ProcessingLevel(nova_group) ==
  IF nova_group = 1 THEN "Unprocessed or minimally processed"
  ELSE IF nova_group = 2 THEN "Processed culinary ingredients"
  ELSE IF nova_group = 3 THEN "Processed foods"
  ELSE IF nova_group = 4 THEN "Ultra-processed foods"
  ELSE "Unknown"

\* The ProductAnalysis built from a product record that is not empty.
Analysis(pd, health_conditions) ==
  LET ings == parse_ingredients(Get(pd, "ingredients_text", << >>))
      als  == generate_alerts(pd, ings)
  IN  [ product_name |-> Get(pd, "product_name", <<"U","n","k","n","o","w","n"," ","P","r","o","d","u","c","t">>),
        brand        |-> Get(pd, "brands", <<"U","n","k","n","o","w","n"," ","B","r","a","n","d">>),
        health_score |-> calculate_health_score(pd, ings, als),
        ingredients  |-> ings,
        alerts       |-> als,
        nutri_score  |-> Upper(Get(pd, "nutriscore_grade", <<"U","n","k","n","o","w","n">>)),
        processing_level |-> ProcessingLevel(Get(pd, "nova_group", 1)),
        personalized_recommendations |->
          get_personalized_recommendations(pd, ings, health_conditions) ]

\* The answer of POST /analyze-product: the analysis, or HTTPException(404)
\* when get_product_data returned None or an empty record.
analyze_product(outcome, health_conditions) ==
  LET pd == get_product_data(outcome)
  IN  IF DOMAIN pd = {}
        THEN [ status_code |-> 404, detail |-> "Product not found" ]
        ELSE [ status_code |-> 200, body |-> Analysis(pd, health_conditions) ]

-----------------------------------------------------------------------------
(* Specification of the product endpoint: one request, which meets any     *)
(* outcome of the lookup.                                                  *)

MaxRequestConditions == 1

LookupNutriments ==
  { MkNutriments(s, t, f) :
      s \in Opt({150}), t \in Opt({5, 16}), f \in Opt({10}) }

LookupProducts ==
  { Entry("nutriments", n) @@ Entry("nova_group", g) @@ Entry("ingredients_text", i)
      @@ Entry("product_name", p) @@ Entry("nutriscore_grade", s) :
      n \in Opt(LookupNutriments), g \in Opt({1, 4}),
      i \in Opt({ScenarioText, <<"O","a","t","s",","," ","H","o","n","e","y"," ","2","0","%">>}),
      p \in Opt({<<"O","a","t"," ","B","a","r">>}), s \in Opt({<<"b">>}) }

\* Status codes of answers other than 200.
FailureCodes == {404, 500, 503}

LookupOutcomes ==
  {[kind |-> "exception"]}
    \cup {[kind |-> "response", status_code |-> c, json |-> EmptyDict] : c \in FailureCodes}
    \cup {[kind |-> "response", status_code |-> 200, json |-> "status" :> 0]}
    \cup {[kind |-> "response", status_code |-> 200, json |-> "status" :> 1]}
    \cup {[kind |-> "response", status_code |-> 200,
           json |-> ("status" :> 1) @@ ("product" :> p)] : p \in LookupProducts}

RequestConditions ==
  SeqUpTo({<<"d","i","a","b","e","t","e","s">>, <<"H","y","p","e","r","t","e","n","s","i","o","n">>}, MaxRequestConditions)

InitProduct ==
  /\ pc = "idle"
  /\ lookup = None /\ conditions = None /\ response = None
  /\ image_request = None
  /\ product_data = None /\ ingredients = None /\ ingredients_text = None
  /\ text_blocks = None /\ alerts = None /\ health_score = None
  /\ recommendations = None /\ categorized = None

AnalyzeProduct ==
  /\ pc = "idle"
  /\ \E outcome \in LookupOutcomes, health_conditions \in RequestConditions :
       /\ lookup' = outcome
       /\ conditions' = health_conditions
       /\ response' = analyze_product(outcome, health_conditions)
  /\ pc' = "responded"
  /\ UNCHANGED << product_data, ingredients, ingredients_text, text_blocks, alerts,
                  health_score, recommendations, categorized,
                  image_request >>

NextProduct == AnalyzeProduct

SpecProduct == InitProduct /\ [][NextProduct]_vars

-----------------------------------------------------------------------------
(* Claim about the product path                                            *)

\* The lookup was answered, and the answer names no matching product.
NoMatch(outcome) ==
  /\ outcome.kind = "response"
  /\ outcome.status_code = 200
  /\ Get(outcome.json, "status", 0) # 1

\* The lookup service was not reached, or answered with a status other than 200.
Unavailable(outcome) ==
  \/ outcome.kind = "exception"
  \/ outcome.kind = "response" /\ outcome.status_code # 200

\* The not-found error of the endpoint.
NotFound(resp) == resp.status_code = 404

\* C6: a lookup that reports no matching product ends in a not-found error with
\* no analysis result, and a lookup whose service is unreachable or returns a
\* non-success status is reported as an error of a kind distinct from not-found.
C6_UpstreamDistinctFromNotFound ==
  pc = "responded" =>
    /\ NoMatch(lookup) => NotFound(response) /\ ~Has(response, "body")
    /\ Unavailable(lookup) =>
         /\ response.status_code # 200
         /\ ~Has(response, "body")
         /\ ~NotFound(response)

-----------------------------------------------------------------------------
(* Image endpoints: extract_ingredients and the two handlers.  A raised    *)
(* exception is a record; the body of a handler's try block ends in a      *)
(* returned value or in a raised exception, and the except clause decides  *)
(* the answer.                                                             *)

\* sep.join(parts)
RECURSIVE JoinWith(_, _)
JoinWith(parts, sep) ==
  IF parts = << >> THEN << >>
  ELSE IF Len(parts) = 1 THEN parts[1]
  ELSE parts[1] \o sep \o JoinWith(Tail(parts), sep)

\* s[i:].startswith(w)
StartsAt(s, i, w) ==
  /\ i + Len(w) - 1 <= Len(s)
  /\ \A k \in 1..Len(w) : s[i + k - 1] = w[k]

\* [\s:]+ from position j: the index of the last character of the longest run
\* of whitespace and colons that starts at j, j - 1 when there is none.
RECURSIVE RunEnd(_, _)
RunEnd(s, j) ==
  IF j <= Len(s) /\ (IsSpace(s[j]) \/ s[j] = ":") THEN RunEnd(s, j + 1) ELSE j - 1

\* [^.]+ from position g: the index of the last character before the next
\* full stop, g - 1 when s[g] is a full stop or past the end.
RECURSIVE SectionEnd(_, _)
SectionEnd(s, g) ==
  IF g <= Len(s) /\ s[g] # "." THEN SectionEnd(s, g + 1) ELSE g - 1

\* r'ingredients?[\s:]+([^.]+)' matched at position i: the start of group 1,
\* 0 when the pattern does not match there.  When the run of whitespace and
\* colons is followed by a full stop or by the end, the run gives its last
\* character back to the group.
SectionStartAt(s, i) ==
  IF ~StartsAt(s, i, <<"i","n","g","r","e","d","i","e","n","t">>) THEN 0
  ELSE LET j == IF i + 10 <= Len(s) /\ s[i + 10] = "s" THEN i + 11 ELSE i + 10
           e == RunEnd(s, j)
       IN  IF e < j THEN 0
           ELSE IF e + 1 <= Len(s) /\ s[e + 1] # "." THEN e + 1
           ELSE IF e > j THEN e
           ELSE 0

\* re.search(r'ingredients?[\s:]+([^.]+)', s): group 1 of the leftmost match,
\* None when there is no match.
IngredientsSection(s) ==
  LET starts == {i \in 1..Len(s) : SectionStartAt(s, i) > 0}
  IN  IF starts = {} THEN None
      ELSE LET i == CHOOSE a \in starts : \A b \in starts : a <= b
               g == SectionStartAt(s, i)
           IN  Some(SubSeq(s, g, SectionEnd(s, g)))

\* re.split(r',|;|\(|\)', s)
RECURSIVE SplitList(_)
SplitList(s) ==
  LET seps == {i \in 1..Len(s) : s[i] \in {",", ";", "(", ")"}}
  IN  IF seps = {} THEN << s >>
      ELSE LET i == CHOOSE a \in seps : \A b \in seps : a <= b
           IN  << SubSeq(s, 1, i - 1) >> \o SplitList(SubSeq(s, i + 1, Len(s)))

\* str.capitalize()
Capitalize(s) ==
  IF s = << >> THEN << >> ELSE << UpperChar(s[1]) >> \o Lower(Tail(s))

\* extract_ingredients(text_blocks): the capitalised, cleaned items of the
\* ingredients section of the joined text, those of one character dropped.
extract_ingredients(all_text) ==
  LET full_text == JoinWith(all_text, << " " >>)
      match     == IngredientsSection(Lower(full_text))
  IN  IF match = None THEN << >>
      ELSE LET raw_ingredients == SplitList(match[1])
               cleaned == [i \in DOMAIN raw_ingredients |->
                             Strip(PctSub(Strip(raw_ingredients[i])))]
               kept    == SelectSeq(cleaned, LAMBDA ing : Len(ing) > 1)
           IN  [i \in DOMAIN kept |-> Capitalize(kept[i])]

\* HTTPException(status_code=..., detail=...)
HTTPException(status_code, detail) ==
  [ type |-> "HTTPException", status_code |-> status_code, detail |-> detail ]

\* How the body of a try block ends.
Raised(e) == [ raised |-> TRUE, exception |-> e ]

Returned(v) == [ raised |-> FALSE, value |-> v ]

RECURSIVE SumConfidence(_)
SumConfidence(lines) ==
  IF lines = << >> THEN 0 ELSE lines[1][2] + SumConfidence(Tail(lines))

\* round(avg_confidence, 2), in hundredths of a percent, the confidences being
\* in hundredths.
AvgConfidence(lines) ==
  IF Len(lines) > 0 THEN Round(RDivInt(R(SumConfidence(lines) * 100), Len(lines)))
  ELSE 0

\* The part the two handlers share, from the call of the OCR engine to the
\* return.  ocr is what the engine does with the image: it raises, or it
\* returns result (None and [] are << >>, and so is a result[0] of None or []);
\* a line is <<text, confidence>>.
OcrAnalysis(ocr) ==
  IF ocr.kind = "exception" THEN Raised([ type |-> "RuntimeError" ])
  ELSE IF ocr.result = << >> \/ ocr.result[1] = << >>
    THEN Raised(HTTPException(400, "No text detected in image"))
  ELSE LET blocks   == ocr.result[1]
           all_text == [i \in DOMAIN blocks |-> blocks[i][1]]
       IN  Returned([ success          |-> TRUE,
                      ingredients      |-> extract_ingredients(all_text),
                      categorized_text |-> categorize_text(blocks),
                      raw_text         |-> JoinWith(all_text, << "\n" >>),
                      confidence       |-> AvgConfidence(blocks) ])

\* except Exception as e: raise HTTPException(500, f"OCR processing failed: {str(e)}")
\* Every exception of the body is caught, an HTTPException of the body
\* included.  The detail holds the caught exception in place of its str().
OcrResponse(outcome) ==
  IF outcome.raised
    THEN [ status_code |-> 500,
           detail |-> << "OCR processing failed: ", outcome.exception >> ]
    ELSE [ status_code |-> 200, body |-> outcome.value ]

\* POST /analyze-image.  file.image tells whether Image.open accepts the
\* uploaded bytes.
analyze_image(file) ==
  OcrResponse(IF file.image = "undecodable"
                THEN Raised([ type |-> "UnidentifiedImageError" ])
                ELSE OcrAnalysis(file.ocr))

\* image_base64.split(',')[1] when the string holds a comma, else the string
Payload(image_base64) ==
  LET commas == {i \in 1..Len(image_base64) : image_base64[i] = ","}
  IN  IF commas = {} THEN image_base64
      ELSE LET a     == CHOOSE i \in commas : \A j \in commas : i <= j
               later == commas \ {a}
               b     == IF later = {} THEN Len(image_base64) + 1
                        ELSE CHOOSE i \in later : \A j \in later : i <= j
           IN  SubSeq(image_base64, a + 1, b - 1)

\* POST /analyze-image-base64.  request.image_data is the posted dict,
\* request.decodable the payloads that b64decode and Image.open accept.
analyze_image_base64(request) ==
  LET image_base64 == Get(request.image_data, "image", None)
  IN  OcrResponse(IF image_base64 = << >>
                    THEN Raised(HTTPException(400, "No image data provided"))
                  ELSE IF Payload(image_base64) \notin request.decodable
                    THEN Raised([ type |-> "UnidentifiedImageError" ])
                  ELSE OcrAnalysis(request.ocr))

-----------------------------------------------------------------------------
(* Specification of the image endpoints: one request to either endpoint,   *)
(* which meets any behaviour of the decoder and of the OCR engine.         *)

MaxImageLines == 2

ImageTexts ==
  { <<"I","n","g","r","e","d","i","e","n","t","s",":"," ","S","u","g","a","r",","," ","S","a","l","t"," ","(","5","%",")",";"," ","E",".">>,
    <<"C","O","C","A"," ","C","O","L","A">>,
    <<"i","n","g","r","e","d","i","e","n","t">>,
    <<":"," ","o","a","t","s"," ","1","2","%",","," ","a",","," ","n","u","t","s">> }

ImageLines == ImageTexts \X {90, 97}

OcrOutcomes ==
  {[kind |-> "exception"]}
    \cup {[kind |-> "result", result |-> << >>]}
    \cup {[kind |-> "result", result |-> << l >>] : l \in SeqUpTo(ImageLines, MaxImageLines)}

ImageUploads ==
  {[image |-> "undecodable"]}
    \cup {[image |-> "decoded", ocr |-> o] : o \in OcrOutcomes}

Base64Image == <<"Q","U","J","D">>

ImageStrings == { Base64Image, <<"d","a","t","a",":","i","m","a","g","e","/","p","n","g",";","b","a","s","e","6","4",",">> \o Base64Image }

Base64Requests ==
  {[image_data |-> d] : d \in {EmptyDict, "image" :> << >>}}
    \cup {[image_data |-> "image" :> s, decodable |-> {}] : s \in ImageStrings}
    \cup {[image_data |-> "image" :> s, decodable |-> {Base64Image}, ocr |-> o] :
            s \in ImageStrings, o \in OcrOutcomes}

InitImage ==
  /\ pc = "idle"
  /\ image_request = None /\ response = None
  /\ lookup = None /\ conditions = None
  /\ product_data = None /\ ingredients = None /\ ingredients_text = None
  /\ text_blocks = None /\ alerts = None /\ health_score = None
  /\ recommendations = None /\ categorized = None

AnalyzeImage ==
  /\ pc = "idle"
  /\ \E file \in ImageUploads :
       /\ image_request' = [ endpoint |-> "/analyze-image", file |-> file ]
       /\ response' = analyze_image(file)
  /\ pc' = "responded"
  /\ UNCHANGED << product_data, ingredients, conditions, ingredients_text,
                  text_blocks, alerts, health_score, recommendations,
                  categorized, lookup >>

AnalyzeImageBase64 ==
  /\ pc = "idle"
  /\ \E request \in Base64Requests :
       /\ image_request' = [ endpoint |-> "/analyze-image-base64", request |-> request ]
       /\ response' = analyze_image_base64(request)
  /\ pc' = "responded"
  /\ UNCHANGED << product_data, ingredients, conditions, ingredients_text,
                  text_blocks, alerts, health_score, recommendations,
                  categorized, lookup >>

NextImage == AnalyzeImage \/ AnalyzeImageBase64

SpecImage == InitImage /\ [][NextImage]_vars

-----------------------------------------------------------------------------
(* Claim about the image endpoints                                         *)

\* What the request carried and what the decoder and the engine did with it.
Carried(req) == IF req.endpoint = "/analyze-image" THEN req.file ELSE req.request

\* The base64 request names no image, or an empty one.
NoImageData(req) ==
  /\ req.endpoint = "/analyze-image-base64"
  /\ Get(req.request.image_data, "image", None) = << >>

\* The image was decoded and handed to the engine.
Scanned(req) == ~NoImageData(req) /\ Has(Carried(req), "ocr")

\* The engine ran and found no text.
NoTextDetected(req) ==
  /\ Scanned(req)
  /\ Carried(req).ocr.kind = "result"
  /\ Carried(req).ocr.result = << >> \/ Carried(req).ocr.result[1] = << >>

\* The image could not be decoded, or the engine failed.
ProcessingFailed(req) ==
  /\ ~NoImageData(req)
  /\ ~Scanned(req) \/ Carried(req).ocr.kind = "exception"

\* C12: on both image endpoints a request whose image yields no detected text,
\* and on the base64 endpoint a request without image data, is answered with
\* status 400 and its own detail; an undecodable image or a failure of the OCR
\* engine is answered with status 500 and a detail that begins with
\* "OCR processing failed".
C12_ClientErrorsKeepStatus400 ==
  pc = "responded" =>
    /\ NoTextDetected(image_request) =>
         /\ response.status_code = 400
         /\ response.detail = "No text detected in image"
    /\ NoImageData(image_request) =>
         /\ response.status_code = 400
         /\ response.detail = "No image data provided"
    /\ ProcessingFailed(image_request) =>
         /\ response.status_code = 500
         /\ response.detail[1] = "OCR processing failed: "

====
